---- MODULE Spec2Model ----
(***************************************************************************)
(* Go Fish: the multi-player engine (game.py, player.py) and the window    *)
(* shell that drives it (gui.py, started by main.py).                      *)
(*                                                                         *)
(* A Python string is modelled as the tuple of its "_"-separated words,    *)
(* the constant word "of" left out: the rank "7" is <<"7">> and the card   *)
(* "7_of_hearts" is <<"7", "hearts">>.  str.startswith is then the prefix  *)
(* relation on tuples and card.split("_")[0] the one-word prefix.          *)
(* Belief scores are kept in tenths (0.3 is 3, 1 is 10).                   *)
(***************************************************************************)
EXTENDS Integers, Sequences, FiniteSets, TLC

\* ------------------------------------------------------------- bounds
\* Ranks in play: the first NumRanks of the thirteen ranks of game.py.
NumRanks == 6
\* The number of AI players asked for is drawn from 1..MaxAI.
MaxAI == 2
\* The shuffles the deck is drawn from are Shuffle(1) .. Shuffle(NumShuffles).
NumShuffles == 2
\* Exchanges in one behaviour that move a card (a transfer or a draw).
MaxTurns == 3
\* Exchanges in one behaviour that move none ("Go Fish" on an empty deck).
MaxMisses == 2
\* Cards in the hand of a player whose methods are called on their own.
HandMax == 4
\* The shuffles of all 52 cards are WholeShuffle(1) .. WholeShuffle(DealShuffles).
DealShuffles == 8
\* The decks the console loop is started on.
ConsoleShuffles == 24

\* ---------------------------------------------------------- card set
AllRanks ==
    << <<"2">>, <<"3">>, <<"4">>, <<"5">>, <<"6">>, <<"7">>, <<"8">>, <<"9">>,
       <<"10">>, <<"jack">>, <<"queen">>, <<"king">>, <<"ace">> >>

RANKS == SubSeq(AllRanks, 1, NumRanks)

SUITS == <<"hearts", "diamonds", "clubs", "spades">>

RankSet == {RANKS[i] : i \in 1..Len(RANKS)}

\* [f"{rank}_of_{suit}" for rank in RANKS for suit in SUITS]
FullDeck ==
    [i \in 1..(Len(RANKS) * Len(SUITS)) |->
        RANKS[((i - 1) \div Len(SUITS)) + 1] \o
            <<SUITS[((i - 1) % Len(SUITS)) + 1]>>]

\* A completed book is a set of four cards (count == 4 in check_for_books).
BookSize == 4

None == <<>>
Some(x) == <<x>>

HUMAN == 0

Names ==
    <<"Player", "AI 1", "AI 2", "AI 3", "AI 4", "AI 5", "AI 6", "AI 7",
      "AI 8", "AI 9">>

\* player.name
Name(p) == Names[p + 1]

\* ------------------------------------------------------- str helpers
\* card.startswith(rank)
StartsWith(card, rank) ==
    /\ Len(rank) <= Len(card)
    /\ SubSeq(card, 1, Len(rank)) = rank

\* card.split("_")[0]
RankOf(card) == SubSeq(card, 1, 1)

RECURSIVE SumSeq(_)
SumSeq(s) == IF s = <<>> THEN 0 ELSE Head(s) + SumSeq(Tail(s))

\* defaultdict: a function on the keys touched so far, 0 elsewhere
EmptyDict == [k \in {} |-> 0]
Get(d, k) == IF k \in DOMAIN d THEN d[k] ELSE 0
Put(d, k, v) == [x \in (DOMAIN d) \cup {k} |-> IF x = k THEN v ELSE d[x]]

\* ------------------------------------------------------------ Player
\* A player's cards: pl = [hand |-> Seq(card), books |-> Seq(rank)].

\* rank_counts[rank] of check_for_books and choose_request
CountRank(h, rank) == Len(SelectSeq(h, LAMBDA c : RankOf(c) = rank))

\* The keys of rank_counts in insertion order: the ranks of the hand in
\* order of first occurrence.
RECURSIVE RankOrder(_)
RankOrder(h) ==
    IF h = <<>> THEN <<>>
    ELSE <<RankOf(Head(h))>> \o
         RankOrder(SelectSeq(Tail(h), LAMBDA c : RankOf(c) # RankOf(Head(h))))

\* A check_for_books that takes three cards of a rank for a book.
RECURSIVE ExtractBooksOfThree(_, _, _)
ExtractBooksOfThree(pl, order, counts) ==
    IF order = <<>> THEN pl
    ELSE LET rank == Head(order)
             nxt  == IF counts[rank] = BookSize - 1
                     THEN [hand  |-> SelectSeq(pl.hand,
                                       LAMBDA c : ~StartsWith(c, rank)),
                           books |-> Append(pl.books, rank)]
                     ELSE pl
         IN  ExtractBooksOfThree(nxt, Tail(order), counts)

\* The loop of check_for_books over rank_counts.items(): the counts are those
\* taken before the loop; a rank counted four times is appended to books and
\* every card that starts with it is dropped from the hand.
RECURSIVE ExtractBooks(_, _, _)
ExtractBooks(pl, order, counts) ==
    IF order = <<>> THEN pl
    ELSE LET rank == Head(order)
             nxt  == IF counts[rank] = BookSize
                     THEN [hand  |-> SelectSeq(pl.hand,
                                       LAMBDA c : ~StartsWith(c, rank)),
                           books |-> Append(pl.books, rank)]
                     ELSE pl
         IN  ExtractBooks(nxt, Tail(order), counts)

\* A check_for_books that records the book and leaves its cards in the hand.
CheckForBooksKeepsCards(pl) ==
    [pl EXCEPT !.books = @ \o SelectSeq(RankOrder(pl.hand),
                               LAMBDA r : CountRank(pl.hand, r) = BookSize)]

CheckForBooks(pl) ==
    LET order  == RankOrder(pl.hand)
        counts == [r \in {order[i] : i \in 1..Len(order)} |->
                      CountRank(pl.hand, r)]
    IN  ExtractBooks(pl, order, counts)

\* A receive_card that appends the card and does not check for books.
ReceiveCardNoCheck(pl, card) == [pl EXCEPT !.hand = Append(@, card)]

ReceiveCard(pl, card) ==
    CheckForBooks([pl EXCEPT !.hand = Append(@, card)])

HasRank(pl, rank) == \E i \in 1..Len(pl.hand) : StartsWith(pl.hand[i], rank)

\* A give_cards that returns only the first card of the rank.
GivenCardsFirst(pl, rank) ==
    SubSeq(SelectSeq(pl.hand, LAMBDA c : StartsWith(c, rank)), 1, 1)

\* give_cards: the cards handed over, and the hand that is left
GivenCards(pl, rank) == SelectSeq(pl.hand, LAMBDA c : StartsWith(c, rank))

\* A give_cards that takes out of the hand the cards that come before its
\* last card of the rank, and leaves that one in.
GiveCardsLeavesLast(pl, rank) ==
    [pl EXCEPT !.hand =
        SelectSeq([i \in 1..Len(pl.hand) |->
                      IF StartsWith(pl.hand[i], rank)
                         /\ \E j \in (i + 1)..Len(pl.hand) :
                                StartsWith(pl.hand[j], rank)
                      THEN <<>> ELSE pl.hand[i]],
                  LAMBDA c : c # <<>>)]

\* A give_cards that returns the cards and leaves them in the hand.
GiveCardsKeepsHand(pl, rank) == pl

GiveCards(pl, rank) ==
    [pl EXCEPT !.hand = SelectSeq(pl.hand, LAMBDA c : ~StartsWith(c, rank))]

RECURSIVE ReceiveAll(_, _)
ReceiveAll(pl, cards) ==
    IF cards = <<>> THEN pl
    ELSE ReceiveAll(ReceiveCard(pl, Head(cards)), Tail(cards))

\* ----------------------------------------------- Player of gofish.py
\* The one-opponent engine keeps ranks for cards ("ignoring suits"):
\* pl = [hand |-> Seq(rank), books |-> Seq(rank), last_received_rank].
RanksOnly(h) == [i \in 1..Len(h) |-> RankOf(h[i])]

RECURSIVE GfExtractBooks(_, _, _)
GfExtractBooks(pl, order, counts) ==
    IF order = <<>> THEN pl
    ELSE LET rank == Head(order)
             nxt  == IF counts[rank] = BookSize
                     THEN [pl EXCEPT
                              !.hand = SelectSeq(@, LAMBDA c : c # rank),
                              !.books = Append(@, rank)]
                     ELSE pl
         IN  GfExtractBooks(nxt, Tail(order), counts)

GfCheckForBooks(pl) ==
    LET order  == RankOrder(pl.hand)
        counts == [r \in {order[i] : i \in 1..Len(order)} |->
                      Len(SelectSeq(pl.hand, LAMBDA c : c = r))]
    IN  GfExtractBooks(pl, order, counts)

GfReceiveCard(pl, card) ==
    GfCheckForBooks([pl EXCEPT !.hand = Append(@, card),
                               !.last_received_rank = card])

\* for card in received_cards: receive_card(card)
RECURSIVE GfReceiveAll(_, _)
GfReceiveAll(pl, cards) ==
    IF cards = <<>> THEN pl
    ELSE GfReceiveAll(GfReceiveCard(pl, Head(cards)), Tail(cards))

\* has_rank of gofish.py: rank in self.hand
GfHasRank(pl, rank) == \E i \in 1..Len(pl.hand) : pl.hand[i] = rank

\* give_cards of gofish.py: the cards handed over (card == rank), and the
\* hand that is left (card != rank)
GfGivenCards(pl, rank) == SelectSeq(pl.hand, LAMBDA c : c = rank)

GfGiveCards(pl, rank) ==
    [pl EXCEPT !.hand = SelectSeq(pl.hand, LAMBDA c : c # rank)]

\* request counts from which choose_request treats a rank as failed
FailedThreshold == 4

\* GoFishAI.choose_request() of gofish.py: the ranks it can return, or {None}.
\* rank_counts is built over set(self.hand), whose order of iteration is
\* any: "the first" rank held twice is any rank held twice.
GfChooseRequest(ai) ==
    LET held      == {ai.hand[i] : i \in 1..Len(ai.hand)}
        count(r)  == Len(SelectSeq(ai.hand, LAMBDA c : c = r))
        available == {r \in held : \A i \in 1..Len(ai.books) : ai.books[i] # r}
        history   == ai.request_history
        failed    == {r \in DOMAIN history : history[r] >= FailedThreshold}
        smart     == available \ failed
        pairs     == {r \in smart : count(r) >= 2}
    IN  IF ai.hand = <<>> \/ available = {} THEN {None}
        ELSE IF ai.last_received_rank \in smart THEN {ai.last_received_rank}
        ELSE IF pairs # {} THEN pairs
        ELSE IF smart # {} THEN smart
        ELSE available

\* -------------------------------------------------------------- state
VARIABLES
    deck,                 \* GoFishGame.deck
    hand,                 \* player.hand, by seat (0 is the human, i is "AI i")
    books,                \* player.books, by seat
    current_player,       \* GoFishGame.current_player, a seat
    request_history,      \* GoFishAI.request_history, by AI seat
    player_probabilities, \* GoFishAI.player_probabilities, by AI seat
    last_received_rank,   \* GoFishAI.last_received_rank, by AI seat
    over,                 \* exit() was called by end_game
    prompt,               \* the console is inside human_turn, at an input()
    started,              \* GoFishGUI: the start button was pressed
    selected_rank,        \* GoFishGUI.selected_rank
    selected_target,      \* GoFishGUI.selected_target
    submit_enabled,       \* state of GoFishGUI.submit_button
    shown_hand,           \* the card labels update_gui last packed
    timers,               \* ai_turn callbacks scheduled by root.after
    turns,                \* exchanges so far that moved a card
    misses,               \* exchanges so far that moved none
    last                  \* the operation that led to this state

engine ==
    <<deck, hand, books, current_player, request_history,
      player_probabilities, last_received_rank>>

shell ==
    <<started, selected_rank, selected_target, submit_enabled, shown_hand,
      timers>>

vars == <<engine, over, prompt, shell, turns, misses, last>>

\* self.players = [self.human] + self.ai_players
Players == DOMAIN hand
AIPlayers == Players \ {HUMAN}

Pl(p) == [hand |-> hand[p], books |-> books[p]]

\* ----------------------------------------------------------- shuffle
\* Seven starting cards at every table.
StartingCardsSeven(total_players) == 7

\* total_players <= 3: 7, <= 6: 5, else 4
StartingCards(total_players) ==
    IF total_players <= 3 THEN 7
    ELSE IF total_players <= 6 THEN 5
    ELSE 4

Reverse(s) == [i \in 1..Len(s) |-> s[Len(s) + 1 - i]]

\* random.shuffle(self.deck) leaves one of the permutations of FullDeck.
\* The model draws it from the stacked decks Shuffle(1) .. Shuffle(NumShuffles).
\* A stacked deck is one from which the deal hands seat p the p-th run of
\* starting_cards cards of a base order, the rest of the base order following.
\* The base orders are FullDeck (the runs hold whole ranks: books in the
\* deal, short hands, a short deck) and Triples (three cards of each rank,
\* then the fourth cards: no book in the deal), each cut at 0, 1, 2, ...
Cut(s, c) ==
    [i \in 1..Len(s) |-> s[((i - 1 + c) % Len(s)) + 1]]

Triples ==
    LET held == Len(SUITS) - 1
    IN  [i \in 1..Len(FullDeck) |->
            IF i <= held * Len(RANKS)
            THEN RANKS[((i - 1) \div held) + 1] \o
                     <<SUITS[((i - 1) % held) + 1]>>
            ELSE RANKS[i - held * Len(RANKS)] \o <<SUITS[Len(SUITS)]>>]

Stacked(cards, total_players) ==
    LET k == StartingCards(total_players)
        n == Len(cards)
        dealt == IF k * total_players <= n THEN k * total_players ELSE 0
        pops == [t \in 1..n |->
                    IF t <= dealt
                    THEN cards[((t - 1) % total_players) * k
                               + ((t - 1) \div total_players) + 1]
                    ELSE cards[t]]
    IN  Reverse(pops)

Shuffle(j, total_players) ==
    LET base == IF j % 2 = 1 THEN FullDeck ELSE Triples
    IN  Stacked(Cut(base, (j - 1) \div 2), total_players)

\* ------------------------------------------------------ construction
\* for _ in range(starting_cards): for player in self.players:
\*     if self.deck: player.receive_card(self.deck.pop())
\* from the t-th pass through the body of the inner loop up to the n-th.
RECURSIVE Deal(_, _, _, _)
Deal(g, t, n, total_players) ==
    IF t >= n THEN g
    ELSE IF g.deck = <<>> THEN Deal(g, t + 1, n, total_players)
    ELSE LET p    == t % total_players
             card == g.deck[Len(g.deck)]
             pl   == ReceiveCard([hand |-> g.hand[p], books |-> g.books[p]],
                                 card)
         IN  Deal([deck  |-> SubSeq(g.deck, 1, Len(g.deck) - 1),
                   hand  |-> [g.hand EXCEPT ![p] = pl.hand],
                   books |-> [g.books EXCEPT ![p] = pl.books]],
                  t + 1, n, total_players)

\* __init__ before the deal: the shuffled deck and the players, no cards
\* held.
Undealt(num_ai_players, shuffled) ==
    [deck  |-> shuffled,
     hand  |-> [p \in 0..num_ai_players |-> <<>>],
     books |-> [p \in 0..num_ai_players |-> <<>>]]

NewGame(num_ai_players, shuffled) ==
    LET total_players == num_ai_players + 1
    IN  Deal(Undealt(num_ai_players, shuffled), 0,
             StartingCards(total_players) * total_players, total_players)

\* ------------------------------------------------------------ engine
\* The GoFishGame object as a record g, so that a handler that calls several
\* of its methods is the composition of their effects.
Game ==
    [deck |-> deck, hand |-> hand, books |-> books,
     current_player |-> current_player,
     request_history |-> request_history,
     player_probabilities |-> player_probabilities,
     last_received_rank |-> last_received_rank]

PlayerOf(g, p) == [hand |-> g.hand[p], books |-> g.books[p]]

WithPlayer(g, p, pl) ==
    [g EXCEPT !.hand[p] = pl.hand, !.books[p] = pl.books]

\* belief steps of update_request_history, in tenths
SuccessGain == 3
FailureLoss == 2
BeliefCap == 10

Min(a, b) == IF a <= b THEN a ELSE b
Max(a, b) == IF a >= b THEN a ELSE b

SeqToSet(s) == {s[i] : i \in 1..Len(s)}

\* A choose_request that looks for a rank held twice before it looks at
\* last_received_rank.
ChooseRequestPairsFirst(g, a) ==
    LET h         == g.hand[a]
        order     == RankOrder(h)
        available == SelectSeq(order,
                               LAMBDA r : r \notin SeqToSet(g.books[a]))
        history   == g.request_history[a]
        failed    == {r \in DOMAIN history : history[r] >= FailedThreshold}
        smart     == SelectSeq(available, LAMBDA r : r \notin failed)
        pairs     == SelectSeq(smart, LAMBDA r : CountRank(h, r) >= 2)
        targets   == (DOMAIN g.hand) \ {a}
        ranks     == IF pairs # <<>> THEN {Head(pairs)}
                     ELSE IF g.last_received_rank[a] \in SeqToSet(smart)
                     THEN {g.last_received_rank[a]}
                     ELSE IF smart # <<>> THEN SeqToSet(smart)
                     ELSE SeqToSet(available)
    IN  IF h = <<>> \/ available = <<>> THEN {None}
        ELSE {<<r, t>> : r \in ranks, t \in targets}

\* A choose_request without the loop over the ranks held twice.
ChooseRequestNoPairRule(g, a) ==
    LET h         == g.hand[a]
        order     == RankOrder(h)
        available == SelectSeq(order,
                               LAMBDA r : r \notin SeqToSet(g.books[a]))
        history   == g.request_history[a]
        failed    == {r \in DOMAIN history : history[r] >= FailedThreshold}
        smart     == SelectSeq(available, LAMBDA r : r \notin failed)
        targets   == (DOMAIN g.hand) \ {a}
        ranks     == IF g.last_received_rank[a] \in SeqToSet(smart)
                     THEN {g.last_received_rank[a]}
                     ELSE IF smart # <<>> THEN SeqToSet(smart)
                     ELSE SeqToSet(available)
    IN  IF h = <<>> \/ available = <<>> THEN {None}
        ELSE {<<r, t>> : r \in ranks, t \in targets}

\* A choose_request that draws the target from all the players.
ChooseRequestAnyTarget(g, a) ==
    LET h         == g.hand[a]
        order     == RankOrder(h)
        available == SelectSeq(order,
                               LAMBDA r : r \notin SeqToSet(g.books[a]))
        history   == g.request_history[a]
        failed    == {r \in DOMAIN history : history[r] >= FailedThreshold}
        smart     == SelectSeq(available, LAMBDA r : r \notin failed)
        pairs     == SelectSeq(smart, LAMBDA r : CountRank(h, r) >= 2)
        ranks     == IF g.last_received_rank[a] \in SeqToSet(smart)
                     THEN {g.last_received_rank[a]}
                     ELSE IF pairs # <<>> THEN {Head(pairs)}
                     ELSE IF smart # <<>> THEN SeqToSet(smart)
                     ELSE SeqToSet(available)
    IN  IF h = <<>> \/ available = <<>> THEN {None}
        ELSE {<<r, t>> : r \in ranks, t \in DOMAIN g.hand}

\* A choose_request without its last priority: (None, None) when the AI has
\* not just received a rank and holds no two cards of one.
ChooseRequestNoRandomRank(g, a) ==
    LET h         == g.hand[a]
        order     == RankOrder(h)
        available == SelectSeq(order,
                               LAMBDA r : r \notin SeqToSet(g.books[a]))
        history   == g.request_history[a]
        failed    == {r \in DOMAIN history : history[r] >= FailedThreshold}
        smart     == SelectSeq(available, LAMBDA r : r \notin failed)
        pairs     == SelectSeq(smart, LAMBDA r : CountRank(h, r) >= 2)
        targets   == (DOMAIN g.hand) \ {a}
        ranks     == IF g.last_received_rank[a] \in SeqToSet(smart)
                     THEN {g.last_received_rank[a]}
                     ELSE IF pairs # <<>> THEN {Head(pairs)}
                     ELSE {}
    IN  IF h = <<>> \/ available = <<>> \/ ranks = {} THEN {None}
        ELSE {<<r, t>> : r \in ranks, t \in targets}

\* GoFishAI.choose_request(players): the (rank, target) pairs random.choice
\* can produce, or {None} for (None, None).
ChooseRequest(g, a) ==
    LET h         == g.hand[a]
        order     == RankOrder(h)
        available == SelectSeq(order,
                               LAMBDA r : r \notin SeqToSet(g.books[a]))
        history   == g.request_history[a]
        failed    == {r \in DOMAIN history : history[r] >= FailedThreshold}
        smart     == SelectSeq(available, LAMBDA r : r \notin failed)
        pairs     == SelectSeq(smart, LAMBDA r : CountRank(h, r) >= 2)
        targets   == (DOMAIN g.hand) \ {a}
        ranks     == IF g.last_received_rank[a] \in SeqToSet(smart)
                     THEN {g.last_received_rank[a]}
                     ELSE IF pairs # <<>> THEN {Head(pairs)}
                     ELSE IF smart # <<>> THEN SeqToSet(smart)
                     ELSE SeqToSet(available)
    IN  IF h = <<>> \/ available = <<>> THEN {None}
        ELSE {<<r, t>> : r \in ranks, t \in targets}

\* A choose_request that counts the cards of the hand in request_history
\* instead of a dict of its own.
ChooseRequestCountsInHistory(g, a) ==
    [g EXCEPT !.request_history[a] =
        [r \in (DOMAIN @) \cup SeqToSet(RankOrder(g.hand[a])) |->
            Get(@, r) + CountRank(g.hand[a], r)]]

\* The game after choose_request has returned: it assigns to no attribute
\* of the AI, of the players or of the game (rank_counts, available_ranks,
\* failed_ranks and smart_choices are locals, request_history is read
\* through items()).
ChooseRequestLeaves(g, a) == g

\* GoFishAI.update_request_history(rank, player_name, success) on the AI
\* at seat a
UpdateRequestHistory(g, a, rank, player_name, success) ==
    LET key  == <<player_name, rank>>
        old  == Get(g.player_probabilities[a], key)
        step == IF success THEN old + SuccessGain ELSE old - FailureLoss
    IN  [g EXCEPT
            !.request_history[a] = Put(@, rank, Get(@, rank) + 1),
            !.player_probabilities[a] =
                Put(@, key, Max(0, Min(BeliefCap, step)))]

\* An "Update AI memory" loop without its test: every AI records, the
\* requester too.
UpdateMemoryAll(g, ais, requester, target, rank, player_name) ==
    LET success == HasRank(PlayerOf(g, target), rank)
        key     == <<player_name, rank>>
        step(a) == IF success
                   THEN Get(g.player_probabilities[a], key) + SuccessGain
                   ELSE Get(g.player_probabilities[a], key) - FailureLoss
    IN  [g EXCEPT
            !.request_history =
                [a \in DOMAIN @ |-> Put(@[a], rank, Get(@[a], rank) + 1)],
            !.player_probabilities =
                [a \in DOMAIN @ |->
                    Put(@[a], key, Max(0, Min(BeliefCap, step(a))))]]

\* An "Update AI memory" loop that leaves out the target as well as the
\* requester.
UpdateMemorySkipsTarget(g, ais, requester, target, rank, player_name) ==
    LET key     == <<player_name, rank>>
        records(a) == a # requester /\ a # target
        step(a) == Get(g.player_probabilities[a], key) - FailureLoss
    IN  [g EXCEPT
            !.request_history =
                [a \in DOMAIN @ |->
                    IF records(a) THEN Put(@[a], rank, Get(@[a], rank) + 1)
                    ELSE @[a]],
            !.player_probabilities =
                [a \in DOMAIN @ |->
                    IF records(a)
                    THEN Put(@[a], key, Max(0, Min(BeliefCap, step(a))))
                    ELSE @[a]]]

\* "Update AI memory": for ai in self.ai_players: if ai != requester:
\*     ai.update_request_history(rank, player_name, target.has_rank(rank))
\* has_rank is evaluated here, after the exchange was resolved.
RECURSIVE UpdateMemory(_, _, _, _, _, _)
UpdateMemory(g, ais, requester, target, rank, player_name) ==
    IF ais = <<>> THEN g
    ELSE LET ai == Head(ais)
             g1 == IF ai # requester
                   THEN UpdateRequestHistory(g, ai, rank, player_name,
                            HasRank(PlayerOf(g, target), rank))
                   ELSE g
         IN  UpdateMemory(g1, Tail(ais), requester, target, rank,
                          player_name)

\* self.ai_players, in creation order
AIList(g) == [i \in 1..(Cardinality(DOMAIN g.hand) - 1) |-> i]

\* A request that draws with deck.pop(0): the first card of the deck.
ResolveDrawsFirst(g, requester, target, rank) ==
    IF HasRank(PlayerOf(g, target), rank)
    THEN LET received == GivenCards(PlayerOf(g, target), rank)
             g1 == WithPlayer(g, target,
                              GiveCards(PlayerOf(g, target), rank))
             pl == CheckForBooks(ReceiveAll(PlayerOf(g1, requester),
                                            received))
         IN  WithPlayer(g1, requester, pl)
    ELSE IF g.deck # <<>>
    THEN LET drawn_card == g.deck[1]
             g1 == [g EXCEPT !.deck = Tail(@)]
         IN  WithPlayer(g1, requester,
                        ReceiveCard(PlayerOf(g1, requester), drawn_card))
    ELSE g

\* The request itself, as human_turn, ai_turn and submit_move all have it:
\* the target gives every card of the rank and the requester receives them
\* one by one, then checks for books; else the requester draws the last
\* card of the deck if there is one.
Resolve(g, requester, target, rank) ==
    IF HasRank(PlayerOf(g, target), rank)
    THEN LET received == GivenCards(PlayerOf(g, target), rank)
             g1 == WithPlayer(g, target,
                              GiveCards(PlayerOf(g, target), rank))
             pl == CheckForBooks(ReceiveAll(PlayerOf(g1, requester),
                                            received))
         IN  WithPlayer(g1, requester, pl)
    ELSE IF g.deck # <<>>
    THEN LET drawn_card == g.deck[Len(g.deck)]
             g1 == [g EXCEPT !.deck = SubSeq(@, 1, Len(@) - 1)]
         IN  WithPlayer(g1, requester,
                        ReceiveCard(PlayerOf(g1, requester), drawn_card))
    ELSE g

\* A next_turn that moves two seats on.
NextTurnTwice(g) ==
    [g EXCEPT !.current_player = (@ + 2) % Cardinality(DOMAIN g.hand)]

\* next_turn
NextTurn(g) ==
    [g EXCEPT !.current_player = (@ + 1) % Cardinality(DOMAIN g.hand)]

\* A check_winner that looks at the books only.
CheckWinnerBooksOnly(g) ==
    SumSeq([p \in 1..Cardinality(DOMAIN g.hand) |->
               Len(g.books[p - 1])]) = Len(RANKS)

\* check_winner
CheckWinner(g) ==
    \/ SumSeq([p \in 1..Cardinality(DOMAIN g.hand) |->
                  Len(g.books[p - 1])]) = Len(RANKS)
    \/ \E p \in DOMAIN g.hand : g.hand[p] = <<>>

\* max(len(player.books) for player in self.players)
MaxBooks(g) ==
    CHOOSE m \in {Len(g.books[p]) : p \in DOMAIN g.hand} :
        \A p \in DOMAIN g.hand : Len(g.books[p]) <= m

\* An end_game that announces the first player with the most books.
WinnersFirstOnly(g) ==
    LET seats == SelectSeq([i \in 1..Cardinality(DOMAIN g.hand) |-> i - 1],
                           LAMBDA p : Len(g.books[p]) = MaxBooks(g))
    IN  <<Name(seats[1])>>

\* end_game: the winners it announces, "... wins!" for one and "It's a tie
\* between: ..." for more
Winners(g) ==
    LET seats == SelectSeq([i \in 1..Cardinality(DOMAIN g.hand) |-> i - 1],
                           LAMBDA p : Len(g.books[p]) = MaxBooks(g))
    IN  [i \in 1..Len(seats) |-> Name(seats[i])]

\* GoFishGame.ai_turn, for the choice choose_request returned
AiTurn(g, choice) ==
    IF g.current_player = HUMAN \/ choice = None
    THEN NextTurn(g)
    ELSE LET rank   == choice[1]
             target == choice[2]
             g1     == Resolve(g, g.current_player, target, rank)
         IN  UpdateMemory(g1, AIList(g1), g.current_player, target, rank,
                          Name(target))

AiTurnChoices(g) ==
    IF g.current_player = HUMAN THEN {None}
    ELSE ChooseRequest(g, g.current_player)

\* The part of human_turn and of submit_move after the rank and the target
\* are known.
HumanMove(g, target, rank) ==
    LET g1 == Resolve(g, HUMAN, target, rank)
    IN  UpdateMemory(g1, AIList(g1), HUMAN, target, rank, Name(HUMAN))

SetGame(g) ==
    /\ deck' = g.deck
    /\ hand' = g.hand
    /\ books' = g.books
    /\ current_player' = g.current_player
    /\ request_history' = g.request_history
    /\ player_probabilities' = g.player_probabilities
    /\ last_received_rank' = g.last_received_rank

\* The operation that led to a state, with the game it was called on (for
\* __init__, the game before the deal).
\* kind: "exchange" (a request was resolved), "skip" (ai_turn found no move),
\* "end" (end_game), "prompt" (human_turn waits for input), "again" (human_turn
\* turned an input down and asks for a rank again), "call" (a method
\* of a player called on its own, result: what it returned), "none".
\* When the operation went on to end_game, result is the list of winners
\* it announced.
Ev(op, kind, requester, target, rank) ==
    [op |-> op, kind |-> kind, requester |-> requester, target |-> target,
     rank |-> rank, result |-> None, pre |-> Game]

Init ==
    \E num_ai_players \in 1..MaxAI, j \in 1..NumShuffles :
        LET g == NewGame(num_ai_players,
                         Shuffle(j, num_ai_players + 1))
            memory == [a \in 1..num_ai_players |-> EmptyDict]
            unset  == [a \in 1..num_ai_players |-> None]
        IN  /\ deck = g.deck
            /\ hand = g.hand
            /\ books = g.books
            /\ current_player = HUMAN
            /\ request_history = memory
            /\ player_probabilities = memory
            /\ last_received_rank = unset
            /\ over = FALSE
            /\ prompt = None
            /\ started = FALSE
            /\ selected_rank = None
            /\ selected_target = None
            /\ submit_enabled = FALSE
            /\ shown_hand = <<>>
            /\ timers = 0
            /\ turns = 0
            /\ misses = 0
            /\ last = [op |-> "init", kind |-> "none", requester |-> HUMAN,
                       target |-> HUMAN, rank |-> None, result |-> None,
                       pre |-> [deck |-> Shuffle(j, num_ai_players + 1),
                                hand |-> [p \in 0..num_ai_players |-> <<>>],
                                books |-> [p \in 0..num_ai_players |-> <<>>],
                                current_player |-> HUMAN,
                                request_history |-> memory,
                                player_probabilities |-> memory,
                                last_received_rank |-> unset]]

\* An exchange that moves no card: the target has none of the rank and the
\* deck is empty.
Miss(g, target, rank) ==
    ~HasRank(PlayerOf(g, target), rank) /\ g.deck = <<>>

\* The bounds of the model on the exchanges of one behaviour.
Within(g, target, rank) ==
    IF Miss(g, target, rank) THEN misses < MaxMisses ELSE turns < MaxTurns

Count(g, target, rank) ==
    /\ turns' = IF Miss(g, target, rank) THEN turns ELSE turns + 1
    /\ misses' = IF Miss(g, target, rank) THEN misses + 1 ELSE misses

\* The same for the choice of an AI, which may be None (no exchange).
Spend(choice) ==
    IF choice = None THEN UNCHANGED <<turns, misses>>
    ELSE /\ Within(Game, choice[2], choice[1])
         /\ Count(Game, choice[2], choice[1])

\* ------------------------------------------------------ window shell
\* start_game: the start button, then update_gui
StartGame ==
    /\ ~over /\ prompt = None
    /\ ~started
    /\ started' = TRUE
    /\ shown_hand' = hand[HUMAN]
    /\ submit_enabled' = (selected_rank # None /\ selected_target # None)
    /\ UNCHANGED <<engine, over, prompt, selected_rank, selected_target,
                   timers, turns, misses, last>>

\* select_rank(c.split("_")[0]): a click on one of the card labels that
\* update_gui packed
SelectRank(rank) ==
    /\ ~over /\ prompt = None
    /\ started
    /\ rank \in SeqToSet(RankOrder(shown_hand))
    /\ selected_rank' = rank
    /\ shown_hand' = hand[HUMAN]
    /\ submit_enabled' = (selected_target # None)
    /\ UNCHANGED <<engine, over, prompt, started, selected_target, timers,
                   turns, misses, last>>

\* select_target: a click on the label of an AI player
SelectTarget(a) ==
    /\ ~over /\ prompt = None
    /\ started
    /\ a \in AIPlayers
    /\ selected_target' = Some(a)
    /\ shown_hand' = hand[HUMAN]
    /\ submit_enabled' = (selected_rank # None)
    /\ UNCHANGED <<engine, over, prompt, started, selected_rank, timers,
                   turns, misses, last>>

\* submit_move: the "Ask for Card" button, which update_gui enables
SubmitMove ==
    /\ ~over /\ prompt = None
    /\ submit_enabled
    /\ IF selected_rank # None /\ selected_target # None
       THEN LET target == selected_target[1]
                g1     == HumanMove(Game, target, selected_rank)
                ended  == CheckWinner(g1)
                g2     == IF ended THEN g1 ELSE NextTurn(g1)
            IN  /\ Within(Game, target, selected_rank)
                /\ SetGame(g2)
                /\ selected_rank' = None
                /\ selected_target' = None
                /\ shown_hand' = g1.hand[HUMAN]
                /\ submit_enabled' = FALSE
                /\ over' = ended
                /\ timers' = IF ~ended /\ g2.current_player # HUMAN
                             THEN timers + 1 ELSE timers
                /\ Count(Game, target, selected_rank)
                /\ last' = [Ev("submit_move", "exchange", HUMAN, target,
                               selected_rank)
                              EXCEPT !.result = IF ended THEN Winners(g1)
                                                ELSE None]
       ELSE UNCHANGED <<engine, over, selected_rank, selected_target,
                        shown_hand, submit_enabled, timers, turns, misses, last>>
    /\ UNCHANGED <<prompt, started>>

\* GoFishGUI.ai_turn: a callback scheduled by root.after fires.  If the
\* current player is an AI: game.ai_turn(), update_gui, then check_winner and
\* end_game, else next_turn and the next callback; if not, it returns.
\* (root.update() finds no event pending: the handler runs undivided.)
AiTurnCallback ==
    /\ ~over /\ prompt = None
    /\ timers > 0
    /\ IF current_player # HUMAN
       THEN \E choice \in AiTurnChoices(Game) :
                  LET g1    == AiTurn(Game, choice)
                      ended == CheckWinner(g1)
                      g2    == IF ended THEN g1 ELSE NextTurn(g1)
                  IN  /\ Spend(choice)
                      /\ SetGame(g2)
                      /\ shown_hand' = g1.hand[HUMAN]
                      /\ submit_enabled' =
                             (selected_rank # None /\ selected_target # None)
                      /\ over' = ended
                      /\ timers' = IF ~ended /\ g2.current_player # HUMAN
                                   THEN timers ELSE timers - 1
                      /\ last' = [(IF choice # None
                                   THEN Ev("ai_turn", "exchange",
                                           current_player, choice[2],
                                           choice[1])
                                   ELSE Ev("ai_turn", "skip", current_player,
                                           current_player, None))
                                    EXCEPT !.result = IF ended
                                                      THEN Winners(g1)
                                                      ELSE None]
       ELSE /\ timers' = timers - 1
            /\ UNCHANGED <<engine, over, submit_enabled, shown_hand, turns, misses,
                           last>>
    /\ UNCHANGED <<prompt, started, selected_rank, selected_target>>

\* What a request for rank made to target comes to in game g: the branch
\* "if target.has_rank(rank)" takes ("gives"), or "Go Fish" with a draw
\* ("if self.deck") or without one.
Outcome(g, target, rank) ==
    IF HasRank(PlayerOf(g, target), rank) THEN "gives"
    ELSE IF g.deck # <<>> THEN "go fish, draws"
    ELSE "go fish"

\* GoFishGUI.get_ai_turn_feedback on game g, whose current player is an AI:
\* the texts it can return, each as the rank, the target and the outcome
\* it names. It calls choose_request itself and tests has_rank and the deck
\* on the game as it is when it runs.
GetAiTurnFeedback(g) ==
    {IF c = None
     THEN [rank |-> None, target |-> g.current_player,
           outcome |-> "no valid move"]
     ELSE [rank |-> c[1], target |-> c[2],
           outcome |-> Outcome(g, c[2], c[1])] :
        c \in ChooseRequest(g, g.current_player)}

\* ----------------------------------------------------- console shell
\* What can be typed at "Choose a rank to ask for: ": the name of a card of
\* the hand that display_game_state has just printed, or the rank of one, in
\* small letters or in capitals.
RankInputs ==
    [text : SeqToSet(hand[HUMAN]) \cup SeqToSet(RankOrder(hand[HUMAN])),
     caps : BOOLEAN]

LetterRanks == {<<"jack">>, <<"queen">>, <<"king">>, <<"ace">>}

\* A card name has letters ("_of_" and the suit); of the rank names only
\* jack, queen, king and ace have.
HasLetters(text) == Len(text) > 1 \/ text \in LetterRanks

\* str.upper()
Upper(typed) ==
    [typed EXCEPT !.caps = IF HasLetters(typed.text) THEN TRUE ELSE @]

\* rank in self.human.hand: list membership, by equality of strings; the
\* hand holds card names in small letters.
InHand(typed, h) == ~typed.caps /\ typed.text \in SeqToSet(h)

\* What can be typed at "Which AI player do you want to ask?": digits, or
\* a name.
TargetInputs ==
    [digits : BOOLEAN, number : 0..(MaxAI + 1),
     name : {Names[i] : i \in 2..(MaxAI + 1)} \cup {"nobody"}]

\* The AI the target input resolves to, or None ("Invalid AI ...").
TargetOf(g, typed) ==
    LET n == Cardinality(DOMAIN g.hand) - 1
        target_name ==
            IF typed.digits
            THEN IF 1 <= typed.number /\ typed.number <= n
                 THEN Some(Names[typed.number + 1]) ELSE None
            ELSE Some(typed.name)
        found == IF target_name = None THEN {}
                 ELSE {a \in 1..n : Name(a) = target_name[1]}
    IN  IF found = {} THEN None ELSE Some(CHOOSE a \in found : TRUE)

\* play_turn, up to the point where it returns or human_turn waits for
\* input.
PlayTurn ==
    /\ ~over /\ prompt = None
    /\ IF CheckWinner(Game)
       THEN /\ over' = TRUE
            /\ last' = [Ev("play_turn", "end", current_player,
                           current_player, None)
                          EXCEPT !.result = Winners(Game)]
            /\ UNCHANGED <<engine, prompt, turns, misses>>
       ELSE IF hand[current_player] = <<>>
       THEN /\ SetGame(NextTurn(Game))
            /\ last' = Ev("play_turn", "skip", current_player,
                          current_player, None)
            /\ UNCHANGED <<over, prompt, turns, misses>>
       ELSE IF current_player = HUMAN
       THEN /\ prompt' = <<"rank">>
            /\ last' = Ev("play_turn", "prompt", HUMAN, HUMAN, None)
            /\ UNCHANGED <<engine, over, turns, misses>>
       ELSE /\ \E choice \in AiTurnChoices(Game) :
                  /\ Spend(choice)
                  /\ SetGame(NextTurn(AiTurn(Game, choice)))
                  /\ last' = IF choice # None
                             THEN Ev("play_turn", "exchange",
                                     current_player, choice[2], choice[1])
                             ELSE Ev("play_turn", "skip", current_player,
                                     current_player, None)
            /\ UNCHANGED <<over, prompt>>
    /\ UNCHANGED shell

\* A human_turn that draws a card for the human before it looks at the rank
\* typed.
HumanInputDrawsFirst ==
    /\ ~over /\ prompt # None
    /\ deck # <<>>
    /\ \E typed \in RankInputs :
           /\ SetGame(WithPlayer([Game EXCEPT
                                     !.deck = SubSeq(@, 1, Len(@) - 1)],
                                 HUMAN,
                                 ReceiveCard(Pl(HUMAN), deck[Len(deck)])))
           /\ prompt' = <<"rank">>
           /\ last' = Ev("human_turn", "again", HUMAN, HUMAN, None)
    /\ UNCHANGED <<over, turns, misses, shell>>

\* human_turn at one of its input() calls, for the line typed.  At the
\* rank prompt the loop asks again until the upper-cased input is an
\* element of the hand; at the target prompt an unknown player starts
\* human_turn over; else the request is resolved and play_turn goes on to
\* next_turn.
HumanInput ==
    /\ ~over /\ prompt # None
    /\ IF prompt[1] = "rank"
       THEN \E typed \in RankInputs :
               LET rank == Upper(typed)
               IN  /\ IF InHand(rank, hand[HUMAN])
                      THEN /\ prompt' = <<"target", rank.text>>
                           /\ UNCHANGED last
                      ELSE /\ prompt' = prompt
                           /\ last' = Ev("human_turn", "again", HUMAN,
                                         HUMAN, None)
                   /\ UNCHANGED <<engine, over, turns, misses>>
       ELSE \E typed \in TargetInputs :
               LET target == TargetOf(Game, typed)
                   rank   == prompt[2]
               IN  IF target = None
                   THEN /\ prompt' = <<"rank">>
                        /\ last' = Ev("human_turn", "again", HUMAN, HUMAN,
                                      None)
                        /\ UNCHANGED <<engine, over, turns, misses>>
                   ELSE /\ Within(Game, target[1], rank)
                        /\ Count(Game, target[1], rank)
                        /\ SetGame(NextTurn(
                               HumanMove(Game, target[1], rank)))
                        /\ prompt' = None
                        /\ last' = Ev("human_turn", "exchange", HUMAN,
                                      target[1], rank)
                        /\ UNCHANGED over
    /\ UNCHANGED shell

\* ---------------------------------------------------- a player alone
\* The methods of a player called on their own, on an AI player that has a
\* hand, books, a request history and a last received rank of any kind: the
\* AI at seat 1 of a table of MaxAI + 1 players.
TestCards ==
    << RANKS[1] \o <<SUITS[1]>>, RANKS[1] \o <<SUITS[2]>>,
       RANKS[2] \o <<SUITS[1]>>, RANKS[2] \o <<SUITS[2]>>,
       RANKS[3] \o <<SUITS[1]>> >>

TestRanks == {RANKS[1], RANKS[2], RANKS[3]}

\* The hands of up to HandMax of the test cards, in every order.
TestHands ==
    UNION {{h \in [1..n -> SeqToSet(TestCards)] :
               \A i, j \in 1..n : h[i] = h[j] => i = j} : n \in 0..HandMax}

TestBooks == {<<>>, <<RANKS[1]>>}

\* Request counts: none, one rank counted just below or at the threshold of
\* choose_request, or every rank at the threshold.
TestHistories ==
    {EmptyDict, [r \in TestRanks |-> FailedThreshold]}
        \cup {Put(EmptyDict, r, c) :
                 r \in TestRanks,
                 c \in {FailedThreshold - 1, FailedThreshold}}

PlayerInit ==
    \E h \in TestHands, b \in TestBooks, history \in TestHistories,
       received \in {None} \cup TestRanks :
        /\ deck = <<>>
        /\ hand = [p \in 0..MaxAI |-> IF p = 1 THEN h ELSE <<>>]
        /\ books = [p \in 0..MaxAI |-> IF p = 1 THEN b ELSE <<>>]
        /\ current_player = HUMAN
        /\ request_history =
               [a \in 1..MaxAI |-> IF a = 1 THEN history ELSE EmptyDict]
        /\ player_probabilities = [a \in 1..MaxAI |-> EmptyDict]
        /\ last_received_rank =
               [a \in 1..MaxAI |-> IF a = 1 THEN received ELSE None]
        /\ over = FALSE
        /\ prompt = None
        /\ started = FALSE
        /\ selected_rank = None
        /\ selected_target = None
        /\ submit_enabled = FALSE
        /\ shown_hand = <<>>
        /\ timers = 0
        /\ turns = 0
        /\ misses = 0
        /\ last = Ev("set up", "none", 1, 1, None)

\* The GoFishAI of gofish.py that holds the same cards, without their suits.
GfAI(g, a) ==
    [hand |-> RanksOnly(g.hand[a]), books |-> g.books[a],
     request_history |-> g.request_history[a],
     last_received_rank |-> g.last_received_rank[a]]

\* ai.choose_request(players)
ChooseRequestCall ==
    /\ last.op = "set up"
    /\ \E choice \in ChooseRequest(Game, 1) :
           /\ SetGame(ChooseRequestLeaves(Game, 1))
           /\ last' = [Ev("choose_request", "call", 1,
                           IF choice = None THEN 1 ELSE choice[2],
                           IF choice = None THEN None ELSE choice[1])
                          EXCEPT !.result = choice]
    /\ UNCHANGED <<over, prompt, shell, turns, misses>>

\* ai.choose_request() of gofish.py
GfChooseRequestCall ==
    /\ last.op = "set up"
    /\ \E rank \in GfChooseRequest(GfAI(Game, 1)) :
           last' = [Ev("gofish choose_request", "call", 1, 1, rank)
                       EXCEPT !.result = rank]
    /\ UNCHANGED <<engine, over, prompt, shell, turns, misses>>

\* player.give_cards(rank)
GiveCardsCall(rank) ==
    /\ last.op = "set up"
    /\ SetGame(WithPlayer(Game, 1, GiveCards(Pl(1), rank)))
    /\ last' = [Ev("give_cards", "call", 1, 1, rank)
                   EXCEPT !.result = GivenCards(Pl(1), rank)]
    /\ UNCHANGED <<over, prompt, shell, turns, misses>>

\* player.give_cards(rank) of gofish.py
GfGiveCardsCall(rank) ==
    /\ last.op = "set up"
    /\ hand' = [hand EXCEPT ![1] = GfGiveCards(GfAI(Game, 1), rank).hand]
    /\ last' = [Ev("gofish give_cards", "call", 1, 1, rank)
                   EXCEPT !.result = GfGivenCards(GfAI(Game, 1), rank)]
    /\ UNCHANGED <<deck, books, current_player, request_history,
                   player_probabilities, last_received_rank, over, prompt,
                   shell, turns, misses>>

\* ------------------------------------------------- the deal alone
\* GoFishGame(num_ai_players) with all thirteen ranks, for every number of
\* AI players main.py accepts.
MostAI == 9

\* [f"{rank}_of_{suit}" for rank in RANKS for suit in SUITS], 52 cards
WholeDeck ==
    [i \in 1..(Len(AllRanks) * Len(SUITS)) |->
        AllRanks[((i - 1) \div Len(SUITS)) + 1] \o
            <<SUITS[((i - 1) % Len(SUITS)) + 1]>>]

\* The same cards suit by suit.
BySuit ==
    [i \in 1..Len(WholeDeck) |->
        AllRanks[((i - 1) % Len(AllRanks)) + 1] \o
            <<SUITS[((i - 1) \div Len(AllRanks)) + 1]>>]

\* random.shuffle of the 52 cards: stacked decks as in Shuffle, over
\* WholeDeck (the hands dealt are runs of one rank after the other) and
\* over BySuit (no two cards of a hand have the same rank).
WholeShuffle(j, total_players) ==
    LET base == IF j % 2 = 1 THEN WholeDeck ELSE BySuit
    IN  Stacked(Cut(base, (j - 1) \div 2), total_players)

\* __init__ up to the deal: the deck is shuffled, the players are there
\* and the human is the current player.
DealInit ==
    \E num_ai_players \in 1..MostAI, j \in 1..DealShuffles :
        LET g == Undealt(num_ai_players,
                         WholeShuffle(j, num_ai_players + 1))
        IN  /\ deck = g.deck
            /\ hand = g.hand
            /\ books = g.books
            /\ current_player = HUMAN
            /\ request_history = [a \in 1..num_ai_players |-> EmptyDict]
            /\ player_probabilities =
                   [a \in 1..num_ai_players |-> EmptyDict]
            /\ last_received_rank = [a \in 1..num_ai_players |-> None]
            /\ over = FALSE
            /\ prompt = None
            /\ started = FALSE
            /\ selected_rank = None
            /\ selected_target = None
            /\ submit_enabled = FALSE
            /\ shown_hand = <<>>
            /\ timers = 0
            /\ turns = 0
            /\ misses = 0
            /\ last = Ev("shuffle", "none", HUMAN, HUMAN, None)

\* The rest of __init__: starting_cards, and the deal.
Construct ==
    /\ last.op = "shuffle"
    /\ LET g == NewGame(Cardinality(Players) - 1, deck)
       IN  /\ deck' = g.deck
           /\ hand' = g.hand
           /\ books' = g.books
    /\ last' = Ev("__init__", "none", HUMAN, HUMAN, None)
    /\ UNCHANGED <<current_player, request_history, player_probabilities,
                   last_received_rank, over, prompt, shell, turns, misses>>

\* ---------------------------------------------------- specifications
\* The program main.py starts: the window shell on the engine.
GUINext ==
    \/ StartGame
    \/ \E rank \in RankSet : SelectRank(rank)
    \/ \E a \in 1..MaxAI : SelectTarget(a)
    \/ SubmitMove
    \/ AiTurnCallback

GUISpec == Init /\ [][GUINext]_vars

\* The engine under every call its two shells make: the window shell's
\* handlers and the console loop's play_turn.
Next ==
    \/ StartGame
    \/ \E rank \in RankSet : SelectRank(rank)
    \/ \E a \in 1..MaxAI : SelectTarget(a)
    \/ SubmitMove
    \/ AiTurnCallback
    \/ PlayTurn
    \/ HumanInput

Spec == Init /\ [][Next]_vars

\* The program play_game runs: the console loop on a game just constructed,
\* on any of the decks Shuffle(1) .. Shuffle(ConsoleShuffles).
ConsoleInit ==
    \E num_ai_players \in 1..MaxAI, j \in 1..ConsoleShuffles :
        LET g == NewGame(num_ai_players,
                         Shuffle(j, num_ai_players + 1))
            memory == [a \in 1..num_ai_players |-> EmptyDict]
            unset  == [a \in 1..num_ai_players |-> None]
        IN  /\ deck = g.deck
            /\ hand = g.hand
            /\ books = g.books
            /\ current_player = HUMAN
            /\ request_history = memory
            /\ player_probabilities = memory
            /\ last_received_rank = unset
            /\ over = FALSE
            /\ prompt = None
            /\ started = FALSE
            /\ selected_rank = None
            /\ selected_target = None
            /\ submit_enabled = FALSE
            /\ shown_hand = <<>>
            /\ timers = 0
            /\ turns = 0
            /\ misses = 0
            /\ last = [op |-> "init", kind |-> "none", requester |-> HUMAN,
                       target |-> HUMAN, rank |-> None, result |-> None,
                       pre |-> [deck |-> Shuffle(j, num_ai_players + 1),
                                hand |-> [p \in 0..num_ai_players |-> <<>>],
                                books |-> [p \in 0..num_ai_players |-> <<>>],
                                current_player |-> HUMAN,
                                request_history |-> memory,
                                player_probabilities |-> memory,
                                last_received_rank |-> unset]]

ConsoleNext ==
    \/ PlayTurn
    \/ HumanInput

\* The loop of play_game calls play_turn again as long as check_winner is
\* false, and human_turn reads a line whenever it waits for one.
ConsoleSpec ==
    ConsoleInit /\ [][ConsoleNext]_vars
        /\ WF_vars(PlayTurn) /\ WF_vars(HumanInput)

\* One run of the program: the window shell (main.py) or the console loop
\* (play_game) on the game, never both.
ProgramNext ==
    \/ /\ last.op \notin {"play_turn", "human_turn"}
       /\ GUINext
    \/ /\ ~started
       /\ ConsoleNext

ProgramSpec == Init /\ [][ProgramNext]_vars

\* The last turns of games of two players. Each state is one the engine
\* reaches from a deal of the deck of RANKS when the human's turn comes with
\* the deck drawn and two ranks left to book; game k is the game played with
\* the shuffle and the choices that random draws after random.seed(k).
LateGames ==
    << \* game 5
       [deck |-> <<>>, current_player |-> HUMAN,
        hand |-> (0 :> <<<<"4", "spades">>, <<"5", "clubs">>, <<"4", "hearts">>, <<"5", "hearts">>, <<"4", "clubs">>, <<"5", "spades">>>> @@ 1 :> <<<<"4", "diamonds">>, <<"5", "diamonds">>>>),
        books |-> (0 :> <<<<"6">>, <<"2">>, <<"3">>>> @@ 1 :> <<<<"7">>>>),
        request_history |-> <<(<<"2">> :> 1 @@ <<"3">> :> 1 @@ <<"4">> :> 1 @@ <<"5">> :> 1 @@ <<"6">> :> 4)>>,
        player_probabilities |-> <<(<<"Player", <<"2">>>> :> 0 @@ <<"Player", <<"3">>>> :> 0 @@ <<"Player", <<"4">>>> :> 0 @@ <<"Player", <<"5">>>> :> 0 @@ <<"Player", <<"6">>>> :> 0)>>,
        last_received_rank |-> <<None>>]
     , \* game 60
       [deck |-> <<>>, current_player |-> HUMAN,
        hand |-> (0 :> <<<<"5", "spades">>, <<"2", "hearts">>, <<"2", "diamonds">>, <<"2", "spades">>>> @@ 1 :> <<<<"5", "clubs">>, <<"5", "hearts">>, <<"2", "clubs">>, <<"5", "diamonds">>>>),
        books |-> (0 :> <<<<"4">>, <<"6">>, <<"7">>>> @@ 1 :> <<<<"3">>>>),
        request_history |-> <<(<<"4">> :> 2 @@ <<"6">> :> 3 @@ <<"7">> :> 2)>>,
        player_probabilities |-> <<(<<"Player", <<"4">>>> :> 0 @@ <<"Player", <<"6">>>> :> 0 @@ <<"Player", <<"7">>>> :> 0)>>,
        last_received_rank |-> <<None>>]
     , \* game 65
       [deck |-> <<>>, current_player |-> HUMAN,
        hand |-> (0 :> <<<<"5", "diamonds">>, <<"7", "clubs">>, <<"7", "hearts">>, <<"5", "spades">>>> @@ 1 :> <<<<"5", "clubs">>, <<"7", "diamonds">>, <<"5", "hearts">>, <<"7", "spades">>>>),
        books |-> (0 :> <<<<"2">>, <<"6">>, <<"3">>>> @@ 1 :> <<<<"4">>>>),
        request_history |-> <<(<<"2">> :> 2 @@ <<"3">> :> 2 @@ <<"6">> :> 1 @@ <<"7">> :> 2)>>,
        player_probabilities |-> <<(<<"Player", <<"2">>>> :> 0 @@ <<"Player", <<"3">>>> :> 0 @@ <<"Player", <<"6">>>> :> 0 @@ <<"Player", <<"7">>>> :> 0)>>,
        last_received_rank |-> <<None>>]
     , \* game 66
       [deck |-> <<>>, current_player |-> HUMAN,
        hand |-> (0 :> <<<<"6", "spades">>, <<"6", "diamonds">>, <<"3", "diamonds">>, <<"3", "clubs">>, <<"3", "spades">>, <<"6", "hearts">>>> @@ 1 :> <<<<"6", "clubs">>, <<"3", "hearts">>>>),
        books |-> (0 :> <<<<"5">>, <<"2">>>> @@ 1 :> <<<<"7">>, <<"4">>>>),
        request_history |-> <<(<<"2">> :> 2 @@ <<"3">> :> 3 @@ <<"5">> :> 2 @@ <<"6">> :> 1)>>,
        player_probabilities |-> <<(<<"Player", <<"2">>>> :> 0 @@ <<"Player", <<"3">>>> :> 0 @@ <<"Player", <<"5">>>> :> 0 @@ <<"Player", <<"6">>>> :> 0)>>,
        last_received_rank |-> <<None>>]
     , \* game 73
       [deck |-> <<>>, current_player |-> HUMAN,
        hand |-> (0 :> <<<<"5", "clubs">>, <<"5", "hearts">>, <<"5", "spades">>, <<"7", "hearts">>, <<"7", "diamonds">>>> @@ 1 :> <<<<"7", "spades">>, <<"7", "clubs">>, <<"5", "diamonds">>>>),
        books |-> (0 :> <<<<"6">>, <<"4">>, <<"2">>>> @@ 1 :> <<<<"3">>>>),
        request_history |-> <<(<<"2">> :> 2 @@ <<"4">> :> 1 @@ <<"5">> :> 2 @@ <<"6">> :> 3)>>,
        player_probabilities |-> <<(<<"Player", <<"2">>>> :> 0 @@ <<"Player", <<"4">>>> :> 0 @@ <<"Player", <<"5">>>> :> 0 @@ <<"Player", <<"6">>>> :> 0)>>,
        last_received_rank |-> <<None>>]
     , \* game 101
       [deck |-> <<>>, current_player |-> HUMAN,
        hand |-> (0 :> <<<<"5", "clubs">>, <<"5", "spades">>, <<"5", "hearts">>, <<"2", "hearts">>>> @@ 1 :> <<<<"2", "diamonds">>, <<"2", "spades">>, <<"2", "clubs">>, <<"5", "diamonds">>>>),
        books |-> (0 :> <<<<"6">>, <<"3">>, <<"7">>>> @@ 1 :> <<<<"4">>>>),
        request_history |-> <<(<<"3">> :> 1 @@ <<"5">> :> 3 @@ <<"6">> :> 1 @@ <<"7">> :> 3)>>,
        player_probabilities |-> <<(<<"Player", <<"3">>>> :> 0 @@ <<"Player", <<"5">>>> :> 0 @@ <<"Player", <<"6">>>> :> 0 @@ <<"Player", <<"7">>>> :> 0)>>,
        last_received_rank |-> <<None>>]
     , \* game 111
       [deck |-> <<>>, current_player |-> HUMAN,
        hand |-> (0 :> <<<<"5", "spades">>, <<"5", "hearts">>, <<"6", "clubs">>, <<"5", "diamonds">>, <<"6", "hearts">>>> @@ 1 :> <<<<"6", "spades">>, <<"5", "clubs">>, <<"6", "diamonds">>>>),
        books |-> (0 :> <<<<"3">>, <<"2">>, <<"7">>>> @@ 1 :> <<<<"4">>>>),
        request_history |-> <<(<<"2">> :> 4 @@ <<"3">> :> 1 @@ <<"5">> :> 2 @@ <<"6">> :> 1 @@ <<"7">> :> 1)>>,
        player_probabilities |-> <<(<<"Player", <<"2">>>> :> 0 @@ <<"Player", <<"3">>>> :> 0 @@ <<"Player", <<"5">>>> :> 0 @@ <<"Player", <<"6">>>> :> 0 @@ <<"Player", <<"7">>>> :> 0)>>,
        last_received_rank |-> <<None>>]
     , \* game 115
       [deck |-> <<>>, current_player |-> HUMAN,
        hand |-> (0 :> <<<<"4", "diamonds">>, <<"6", "hearts">>>> @@ 1 :> <<<<"6", "diamonds">>, <<"4", "clubs">>, <<"6", "clubs">>, <<"4", "hearts">>, <<"4", "spades">>, <<"6", "spades">>>>),
        books |-> (0 :> <<<<"2">>, <<"5">>, <<"7">>>> @@ 1 :> <<<<"3">>>>),
        request_history |-> <<(<<"2">> :> 1 @@ <<"5">> :> 4 @@ <<"7">> :> 3)>>,
        player_probabilities |-> <<(<<"Player", <<"2">>>> :> 0 @@ <<"Player", <<"5">>>> :> 0 @@ <<"Player", <<"7">>>> :> 0)>>,
        last_received_rank |-> <<None>>]
    >>

LateInit ==
    \E k \in 1..Len(LateGames) :
        /\ deck = LateGames[k].deck
        /\ hand = LateGames[k].hand
        /\ books = LateGames[k].books
        /\ current_player = LateGames[k].current_player
        /\ request_history = LateGames[k].request_history
        /\ player_probabilities = LateGames[k].player_probabilities
        /\ last_received_rank = LateGames[k].last_received_rank
        /\ over = FALSE
        /\ prompt = None
        /\ started = FALSE
        /\ selected_rank = None
        /\ selected_target = None
        /\ submit_enabled = FALSE
        /\ shown_hand = <<>>
        /\ timers = 0
        /\ turns = 0
        /\ misses = 0
        /\ last = [op |-> "late", kind |-> "none", requester |-> HUMAN,
                   target |-> HUMAN, rank |-> None, result |-> None,
                   pre |-> LateGames[k]]

\* The window shell on a game in its last turns.
LateSpec == LateInit /\ [][GUINext]_vars

\* The methods of a player, each called once on a player of any kind.
PlayerNext ==
    \/ ChooseRequestCall
    \/ GfChooseRequestCall
    \/ \E rank \in RankSet : GiveCardsCall(rank)
    \/ \E rank \in RankSet : GfGiveCardsCall(rank)

PlayerSpec == PlayerInit /\ [][PlayerNext]_vars

\* The constructor of the game, on any of the shuffled decks.
DealSpec == DealInit /\ [][Construct]_vars


\* -------------------------------------------------------- properties
\* The seats in order, and sums over them.
Seats == [i \in 1..Cardinality(Players) |-> i - 1]
CardsInHands == SumSeq([i \in 1..Len(Seats) |-> Len(hand[Seats[i]])])
BooksMade == SumSeq([i \in 1..Len(Seats) |-> Len(books[Seats[i]])])

\* The last operation resolved a request; its target held the rank or not.
Exchanged == last.kind = "exchange"
TargetHeld == HasRank(PlayerOf(last.pre, last.target), last.rank)
BooksGained(p) == Len(books[p]) - Len(last.pre.books[p])

\* C1: after construction and after every turn, the cards of the deck, the
\* cards of all hands and four cards for every completed book add up to the
\* whole deck: four cards of each rank in play, 52 with the thirteen ranks.
CardsConserved ==
    Len(deck) + CardsInHands + BookSize * BooksMade = Len(RANKS) * Len(SUITS)

\* An AI was given cards that completed a book, after a card was drawn from
\* the deck in an earlier turn.
CardsConservedWitness ==
    /\ Exchanged /\ TargetHeld
    /\ last.requester # HUMAN
    /\ BooksGained(last.requester) = 1
    /\ turns >= 2
    /\ Len(deck) < Len(FullDeck)
                   - Cardinality(Players) * StartingCards(Cardinality(Players))

\* C2: when receive_card has returned, no hand holds four or more cards of
\* a rank: the hands of every state, the hands after each card of the deal,
\* and the requester's hand after each card of the last transfer and after
\* the last draw; and the same for the Player of gofish.py, given the same
\* cards without their suits.
NoFour(h) == \A rank \in RankSet : CountRank(h, rank) < BookSize

\* The hand after each of the cards, received one by one.
NoFourWhile(pl, cards) ==
    \A k \in 0..Len(cards) :
        NoFour(ReceiveAll(pl, SubSeq(cards, 1, k)).hand)

GfNoFourWhile(pl, cards) ==
    LET gf == [hand |-> RanksOnly(pl.hand), books |-> pl.books,
               last_received_rank |-> None]
    IN  \A k \in 0..Len(cards) : \A rank \in RankSet :
            Len(SelectSeq(
                    GfReceiveAll(gf, RanksOnly(SubSeq(cards, 1, k))).hand,
                    LAMBDA c : c = rank)) < BookSize

\* The cards the deal gives to seat p, in order.
DealtTo(p) ==
    LET d == last.pre.deck
    IN  [i \in 1..StartingCards(Len(Seats)) |->
            d[Len(d) - ((i - 1) * Len(Seats) + p)]]

NoFourOfARank ==
    /\ \A p \in Players : NoFour(hand[p])
    /\ last.op = "init" =>
           /\ \A n \in 0..(StartingCards(Len(Seats)) * Len(Seats)) :
                  \A p \in Players :
                      NoFour(Deal(last.pre, 0, n, Len(Seats)).hand[p])
           /\ \A p \in Players :
                  GfNoFourWhile(PlayerOf(last.pre, p), DealtTo(p))
    /\ (Exchanged /\ TargetHeld) =>
           LET received == GivenCards(PlayerOf(last.pre, last.target),
                                      last.rank)
           IN  /\ NoFourWhile(PlayerOf(last.pre, last.requester), received)
               /\ GfNoFourWhile(PlayerOf(last.pre, last.requester), received)
    /\ (Exchanged /\ ~TargetHeld /\ last.pre.deck # <<>>) =>
           LET drawn_card == <<last.pre.deck[Len(last.pre.deck)]>>
           IN  /\ NoFourWhile(PlayerOf(last.pre, last.requester), drawn_card)
               /\ GfNoFourWhile(PlayerOf(last.pre, last.requester),
                                drawn_card)

\* A player who held three cards of a rank received the fourth.
NoFourOfARankWitness ==
    /\ Exchanged
    /\ CountRank(last.pre.hand[last.requester], last.rank) = BookSize - 1
    /\ TargetHeld
    /\ BooksGained(last.requester) = 1
    /\ \E p \in Players : \E rank \in RankSet :
           CountRank(hand[p], rank) = BookSize - 1

\* C3: a rank recorded in books is recorded once over all players and has
\* no card left in a hand or in the deck; a rank of a hand is there with one
\* to three cards.
BooksExclusive ==
    /\ \A p \in Players : \A i \in 1..Len(books[p]) :
           /\ books[p][i] \in RankSet
           /\ \A q \in Players : \A j \in 1..Len(books[q]) :
                  books[q][j] = books[p][i] => (q = p /\ j = i)
           /\ CountRank(deck, books[p][i]) = 0
           /\ \A q \in Players : CountRank(hand[q], books[p][i]) = 0
    /\ \A p \in Players : \A i \in 1..Len(hand[p]) :
           /\ CountRank(hand[p], RankOf(hand[p][i])) >= 1
           /\ CountRank(hand[p], RankOf(hand[p][i])) <= BookSize - 1

\* Two players have a book, one of them made in the last turn from the
\* cards a target gave, and cards of other ranks are still in every hand and
\* in the deck.
BooksExclusiveWitness ==
    /\ Exchanged /\ TargetHeld
    /\ BooksGained(last.requester) = 1
    /\ \E p \in Players \ {last.requester} : books[p] # <<>>
    /\ deck # <<>>
    /\ \A p \in Players : hand[p] # <<>>

\* C4: once a hand is empty or every rank is a book, no request, transfer
\* or draw is executed: a play_turn called then ends the game and leaves the
\* deck, the hands and the books as they were, and after end_game nothing
\* runs.
EndCondition(g) ==
    \/ \E p \in DOMAIN g.hand : g.hand[p] = <<>>
    \/ SumSeq([i \in 1..Cardinality(DOMAIN g.hand) |->
                  Len(g.books[i - 1])]) = Len(RANKS)

EndsBeforeAnyTurn ==
    /\ (last.op = "play_turn" /\ EndCondition(last.pre)) =>
           /\ last.kind = "end"
           /\ over
           /\ deck = last.pre.deck
           /\ hand = last.pre.hand
           /\ books = last.pre.books
    /\ over => (EndCondition(Game) /\ ~(ENABLED Next))

\* play_turn was called with an empty hand at the table, a non-empty deck
\* and fewer books than ranks, and ended the game.
EndsBeforeAnyTurnWitness ==
    /\ last.op = "play_turn" /\ last.kind = "end"
    /\ \E p \in Players : hand[p] = <<>>
    /\ deck # <<>>
    /\ BooksMade < Len(RANKS)
    /\ over

\* C5: a turn played while the game is not over moves current_player to
\* the next seat, index + 1 modulo the number of players, whatever the
\* request came to: every play_turn that returns, and every turn the window
\* shell plays that does not end the game.
NextSeat(g) == (g.current_player + 1) % Cardinality(DOMAIN g.hand)

OfRank(h, rank) == SelectSeq(h, LAMBDA c : StartsWith(c, rank))
NotOfRank(h, rank) == SelectSeq(h, LAMBDA c : ~StartsWith(c, rank))

Untouched(p) == hand[p] = last.pre.hand[p] /\ books[p] = last.pre.books[p]

\* C6: when the target holds k >= 1 cards of the rank asked for, after the
\* turn the target holds none of them, the deck is as it was, the players
\* other than requester and target have their hands and books as they were,
\* and the requester holds its cards and those k, or, if that makes four, no
\* card of the rank and one more book, of that rank.
TransferTakesAll ==
    (Exchanged /\ TargetHeld) =>
        LET r     == last.requester
            t     == last.target
            given == OfRank(last.pre.hand[t], last.rank)
            mine  == OfRank(last.pre.hand[r], last.rank)
        IN  /\ ~HasRank(Pl(t), last.rank)
            /\ hand[t] = NotOfRank(last.pre.hand[t], last.rank)
            /\ books[t] = last.pre.books[t]
            /\ deck = last.pre.deck
            /\ \A p \in Players \ {r, t} : Untouched(p)
            /\ IF Len(mine) + Len(given) = BookSize
               THEN /\ ~HasRank(Pl(r), last.rank)
                    /\ hand[r] = NotOfRank(last.pre.hand[r], last.rank)
                    /\ books[r] = Append(last.pre.books[r], last.rank)
               ELSE /\ hand[r] = last.pre.hand[r] \o given
                    /\ books[r] = last.pre.books[r]

\* With three players, a target gave two or more cards and they made no
\* book.
TransferTakesAllWitness ==
    /\ Exchanged /\ TargetHeld
    /\ Cardinality(Players) = 3
    /\ Len(OfRank(last.pre.hand[last.target], last.rank)) >= 2
    /\ BooksGained(last.requester) = 0
    /\ HasRank(Pl(last.requester), last.rank)

\* C7: when the target holds no card of the rank asked for, the last card
\* of a non-empty deck moves to the requester's hand, and makes a book there
\* if it is the fourth of its rank; with an empty deck no deck, hand or book
\* changes; either way the target and the other players keep their cards,
\* the deck does not grow, and the turn passes to the next player unless the
\* draw has ended the game.
GoFishDrawsLast ==
    (Exchanged /\ ~TargetHeld) =>
        LET r == last.requester
            d == last.pre.deck
        IN  /\ \A p \in Players \ {r} : Untouched(p)
            /\ Len(deck) <= Len(d)
            /\ IF d = <<>>
               THEN deck = <<>> /\ Untouched(r)
               ELSE LET card == d[Len(d)]
                    IN  /\ deck = SubSeq(d, 1, Len(d) - 1)
                        /\ IF CountRank(last.pre.hand[r], RankOf(card))
                                  = BookSize - 1
                           THEN /\ hand[r] = NotOfRank(last.pre.hand[r],
                                                       RankOf(card))
                                /\ books[r] = Append(last.pre.books[r],
                                                     RankOf(card))
                           ELSE /\ hand[r] = Append(last.pre.hand[r], card)
                                /\ books[r] = last.pre.books[r]
            /\ ~over => current_player = NextSeat(last.pre)

\* An AI asked on an empty deck for a rank its target did not hold, and the
\* turn passed on.
GoFishDrawsLastWitness ==
    /\ Exchanged /\ ~TargetHeld
    /\ last.requester # HUMAN
    /\ last.pre.deck = <<>>
    /\ ~over
    /\ current_player = NextSeat(last.pre)

\* The name under which the last exchange was recorded: the human's by
\* human_turn and submit_move, the target's by ai_turn.
RecordedName ==
    IF last.requester = HUMAN THEN Name(HUMAN) ELSE Name(last.target)

Belief(g, a) == Get(g.player_probabilities[a], <<RecordedName, last.rank>>)
Requests(g, a, rank) == Get(g.request_history[a], rank)

\* C8: in every AI that records an exchange, the belief score of the
\* recorded player and rank is raised by 0.3, to 1 at most, when the target
\* held the rank, and lowered by 0.2, to 0 at least, when it did not.
BeliefFollowsOutcome ==
    Exchanged =>
        \A a \in AIPlayers \ {last.requester} :
            Belief(Game, a) =
                IF TargetHeld
                THEN Min(BeliefCap, Belief(last.pre, a) + SuccessGain)
                ELSE Max(0, Belief(last.pre, a) - FailureLoss)

\* C9: an exchange adds exactly one to the request count of the rank asked
\* for in every AI other than the requester, and leaves the requester's
\* request counts and belief scores as they were.
OthersCountRequest ==
    Exchanged =>
        \A a \in AIPlayers :
            IF a = last.requester
            THEN /\ request_history[a] = last.pre.request_history[a]
                 /\ player_probabilities[a] =
                        last.pre.player_probabilities[a]
            ELSE /\ Requests(Game, a, last.rank) =
                        Requests(last.pre, a, last.rank) + 1
                 /\ \A rank \in RankSet \ {last.rank} :
                        Requests(Game, a, rank) = Requests(last.pre, a, rank)

\* With two AIs, one asked the human for a rank the other AI had counted
\* before.
OthersCountRequestWitness ==
    /\ Exchanged
    /\ Cardinality(Players) = 3
    /\ last.requester # HUMAN /\ last.target = HUMAN
    /\ \E a \in AIPlayers \ {last.requester} :
           Requests(Game, a, last.rank) = 2
    /\ request_history[last.requester] # EmptyDict

\* C10 as claimed: the AI that was the target of a request has its request
\* counts and belief scores left as they were by the exchange.
TargetDoesNotRecord ==
    (Exchanged /\ last.target # HUMAN) =>
        /\ request_history[last.target] =
               last.pre.request_history[last.target]
        /\ player_probabilities[last.target] =
               last.pre.player_probabilities[last.target]

\* C10 as amended: the target AI records the exchange like every other AI,
\* a count for the rank and a belief score under the recorded name; the
\* requester is the only AI whose records the exchange leaves alone.
OnlyRequesterDoesNotRecord ==
    Exchanged =>
        /\ \A a \in AIPlayers :
               (a = last.requester) <=>
                   /\ request_history[a] = last.pre.request_history[a]
                   /\ player_probabilities[a] =
                          last.pre.player_probabilities[a]
        /\ last.target # HUMAN =>
               /\ Requests(Game, last.target, last.rank) =
                      Requests(last.pre, last.target, last.rank) + 1
               /\ <<RecordedName, last.rank>> \in
                      DOMAIN player_probabilities[last.target]

\* An AI asked another AI, and the one asked has recorded it.
OnlyRequesterDoesNotRecordWitness ==
    /\ Exchanged
    /\ last.requester # HUMAN /\ last.target # HUMAN
    /\ Requests(Game, last.target, last.rank) >= 1
    /\ request_history[last.requester] =
           last.pre.request_history[last.requester]

\* The AI whose method was called on its own, as it was before the call.
Called == last.kind = "call"
Received == last.pre.last_received_rank[1]
Holds(rank) == CountRank(last.pre.hand[1], rank) >= 1
Booked(rank) == \E i \in 1..Len(last.pre.books[1]) : last.pre.books[1][i] = rank
Failed(rank) == Requests(last.pre, 1, rank) >= FailedThreshold
ChoseRank == last.op \in {"choose_request", "gofish choose_request"}

\* C11 as claimed: when the AI holds a card of its last received rank and
\* has no book of it, choose_request returns that rank, whatever the request
\* counts and whatever the hand holds twice (game.py's AI and gofish.py's).
LastReceivedAlwaysAsked ==
    (ChoseRank /\ Holds(Received) /\ ~Booked(Received)) =>
        last.rank = Received

\* C11 as amended: it does so when the request count of that rank is below
\* four, whatever the other counts and whatever the hand holds twice.
LastReceivedAskedUnlessFailed ==
    (ChoseRank /\ Holds(Received) /\ ~Booked(Received)
         /\ ~Failed(Received)) =>
        last.rank = Received

\* game.py's AI asked for its last received rank, of which it held one card
\* and had counted three requests, while it held two cards of a rank it
\* had not counted any request for.
LastReceivedAskedUnlessFailedWitness ==
    /\ last.op = "choose_request"
    /\ Holds(Received) /\ ~Booked(Received)
    /\ CountRank(last.pre.hand[1], Received) = 1
    /\ Requests(last.pre, 1, Received) = FailedThreshold - 1
    /\ \E rank \in RankSet \ {Received} :
           /\ CountRank(last.pre.hand[1], rank) >= 2
           /\ ~Booked(rank)
           /\ Requests(last.pre, 1, rank) = 0
    /\ last.rank = Received

\* A candidate of choose_request: a rank that is held, is no book and has a
\* request count below four.
Candidate(rank) == Holds(rank) /\ ~Booked(rank) /\ ~Failed(rank)
CandidatePair(rank) ==
    Candidate(rank) /\ CountRank(last.pre.hand[1], rank) >= 2

\* The position in the hand of the first card of a candidate held twice.
FirstPairAt ==
    CHOOSE i \in 1..Len(last.pre.hand[1]) :
        /\ CandidatePair(RankOf(last.pre.hand[1][i]))
        /\ \A j \in 1..(i - 1) : ~CandidatePair(RankOf(last.pre.hand[1][j]))

\* C12: when the last received rank is no candidate and a candidate is held
\* twice or more, choose_request of game.py's AI returns the candidate held
\* twice that comes first in the hand, never a rank held once.
FirstPairAsked ==
    (last.op = "choose_request" /\ ~Candidate(Received)
         /\ \E rank \in RankSet : CandidatePair(rank)) =>
        /\ last.rank = RankOf(last.pre.hand[1][FirstPairAt])
        /\ CountRank(last.pre.hand[1], last.rank) >= 2

\* The hand began with a rank held once, then came two cards of a rank with
\* four requests counted and then two cards of a candidate, the rank that
\* was returned; the last received rank was held, with four requests too.
FirstPairAskedWitness ==
    /\ last.op = "choose_request"
    /\ Len(last.pre.hand[1]) >= 3
    /\ CountRank(last.pre.hand[1], RankOf(last.pre.hand[1][1])) = 1
    /\ Candidate(RankOf(last.pre.hand[1][1]))
    /\ Holds(Received) /\ Failed(Received)
    /\ CandidatePair(last.rank)
    /\ FirstPairAt > 1

\* C13: in every state of a game, choose_request called on an AI with a
\* non-empty hand returns a rank and a target, never (None, None): a rank
\* the AI holds and has no book of, and a player of the table other than
\* the AI; called on an AI with an empty hand it returns (None, None).
RequestsAreValid ==
    \A a \in AIPlayers :
        LET choices == ChooseRequest(Game, a)
        IN  IF hand[a] = <<>> THEN choices = {None}
            ELSE /\ choices # {}
                 /\ \A choice \in choices :
                        /\ choice # None
                        /\ CountRank(hand[a], choice[1]) >= 1
                        /\ \A i \in 1..Len(books[a]) :
                               books[a][i] # choice[1]
                        /\ choice[2] \in Players \ {a}

\* With two AIs at the table, one that had a book, cards and counted
\* requests has chosen a request in its turn, and the other has a hand as
\* well.
RequestsAreValidWitness ==
    /\ Exchanged
    /\ last.requester # HUMAN
    /\ Cardinality(Players) = 3
    /\ last.pre.books[last.requester] # <<>>
    /\ last.pre.request_history[last.requester] # EmptyDict
    /\ \A a \in AIPlayers : hand[a] # <<>>

Constructed == last.op = "__init__"
DealtCards == StartingCards(Cardinality(Players))

\* C15 as claimed: after GoFishGame(n), for any shuffle, the human is the
\* current player, every player holds exactly k cards (7 with up to three
\* players, 5 with up to six, else 4) and the deck holds the other
\* 52 - k (n + 1) cards.
EveryoneHoldsStartingCards ==
    Constructed =>
        /\ current_player = HUMAN
        /\ \A p \in Players : Len(hand[p]) = DealtCards
        /\ Len(deck) = Len(WholeDeck) - DealtCards * Cardinality(Players)

\* C15 as amended: every player has received exactly k cards, so that it
\* holds k cards less four for every book the deal has made in its hand.
EveryoneDealtStartingCards ==
    Constructed =>
        /\ current_player = HUMAN
        /\ Cardinality(Players) \in 2..(MostAI + 1)
        /\ DealtCards = IF Cardinality(Players) <= 3 THEN 7
                        ELSE IF Cardinality(Players) <= 6 THEN 5 ELSE 4
        /\ \A p \in Players :
               Len(hand[p]) + BookSize * Len(books[p]) = DealtCards
        /\ Len(deck) = Len(WholeDeck) - DealtCards * Cardinality(Players)
        /\ deck = SubSeq(last.pre.deck, 1, Len(deck))

\* GoFishGame(9) has dealt a player four cards of one rank: the player has
\* a book and no card, and twelve cards are left in the deck.
EveryoneDealtStartingCardsWitness ==
    /\ Constructed
    /\ Cardinality(Players) = MostAI + 1
    /\ \E p \in Players : hand[p] = <<>> /\ Len(books[p]) = 1
    /\ Len(deck) = 12

\* C16: the winners end_game announces are the players whose number of
\* books no player exceeds, all of them and no one else, each once; there
\* is always at least one.
WinnersHaveMostBooks ==
    over =>
        /\ last.result # <<>>
        /\ \A p \in Players :
               (\E i \in 1..Len(last.result) : last.result[i] = Name(p))
                   <=> \A q \in Players : Len(books[q]) <= Len(books[p])
        /\ \A i, j \in 1..Len(last.result) :
               last.result[i] = last.result[j] => i = j
        /\ \A i \in 1..Len(last.result) :
               \E p \in Players : last.result[i] = Name(p)

\* The game of three ended in a tie of two players with a book or more,
\* ahead of the third.
WinnersHaveMostBooksWitness ==
    /\ over
    /\ Cardinality(Players) = 3
    /\ Len(last.result) = 2
    /\ \E p \in Players : books[p] # <<>>

\* The cards of a hand whose rank, the part of the name before the first
\* "_", is the rank asked for, and the others, in the order of the hand.
WithRank(h, rank) == SelectSeq(h, LAMBDA c : RankOf(c) = rank)
WithoutRank(h, rank) == SelectSeq(h, LAMBDA c : RankOf(c) # rank)

\* C17: give_cards(rank) returns the cards of that rank the hand held, in
\* their order, and leaves in the hand the other cards, in their order;
\* has_rank(rank) is false after it; the books and everything else are as
\* they were.  The same holds of gofish.py's Player, whose cards are ranks.
GiveCardsTakesTheRank ==
    /\ last.op = "give_cards" =>
           /\ last.result = WithRank(last.pre.hand[1], last.rank)
           /\ hand[1] = WithoutRank(last.pre.hand[1], last.rank)
           /\ ~HasRank(Pl(1), last.rank)
           /\ Len(last.result) + Len(hand[1]) = Len(last.pre.hand[1])
           /\ [Game EXCEPT !.hand[1] = last.pre.hand[1]] = last.pre
    /\ last.op = "gofish give_cards" =>
           LET before == RanksOnly(last.pre.hand[1])
           IN  /\ last.result = SelectSeq(before, LAMBDA c : c = last.rank)
               /\ hand[1] = SelectSeq(before, LAMBDA c : c # last.rank)
               /\ ~GfHasRank(GfAI(Game, 1), last.rank)
               /\ Len(last.result) + Len(hand[1]) = Len(before)
               /\ [Game EXCEPT !.hand[1] = last.pre.hand[1]] = last.pre

\* give_cards has taken two cards of a rank from a hand that held a card
\* of another rank between them and one after them.
GiveCardsTakesTheRankWitness ==
    /\ last.op = "give_cards"
    /\ Len(last.pre.hand[1]) = 4
    /\ RankOf(last.pre.hand[1][1]) = last.rank
    /\ RankOf(last.pre.hand[1][2]) # last.rank
    /\ RankOf(last.pre.hand[1][3]) = last.rank
    /\ Len(last.result) = 2
    /\ hand[1] = <<last.pre.hand[1][2], last.pre.hand[1][4]>>

HumanAsksForHeldRank ==
    last.op = "submit_move" =>
        CountRank(last.pre.hand[HUMAN], last.rank) >= 1

\* C20: the window shell plays the turns one at a time in the order of the
\* seats: a turn is played by the player who is current when it is played,
\* submit_move for the human and an ai_turn callback for an AI, and it
\* passes the turn to the next seat unless it ends the game; no turn is
\* left out and no player plays twice in a row.
TurnsInSeatingOrder ==
    last.op \in {"submit_move", "ai_turn"} =>
        /\ last.requester = last.pre.current_player
        /\ last.op = "submit_move" => last.pre.current_player = HUMAN
        /\ last.op = "ai_turn" => last.pre.current_player # HUMAN
        /\ ~over => current_player = NextSeat(last.pre)

\* C21: the last received rank of an AI is the rank of its latest request
\* that its target answered with cards, and None while it has made none:
\* such a request sets it, and the deal, a draw after "Go Fish" and the
\* turns of the other players leave it as it was.
LastReceivedIsLastSuccess ==
    /\ last.op = "init" => \A a \in AIPlayers : last_received_rank[a] = None
    /\ Exchanged =>
           \A a \in AIPlayers :
               last_received_rank[a] =
                   IF a = last.requester /\ TargetHeld THEN last.rank
                   ELSE last.pre.last_received_rank[a]

\* The ranks choose_request falls back to: held, and no book.
Fallback(rank) == Holds(rank) /\ ~Booked(rank)

\* C22: when every rank the AI holds and has no book of has four requests
\* or more counted, choose_request applies its rules to those ranks: it
\* returns the last received rank if that is one of them, else a rank held
\* twice or more if there is one, and any of them only if neither applies.
FallbackKeepsPriorities ==
    (ChoseRank /\ last.result # None
         /\ \A rank \in RankSet : Fallback(rank) => Failed(rank)) =>
        /\ Fallback(last.rank)
        /\ IF Fallback(Received) THEN last.rank = Received
           ELSE (\E rank \in RankSet :
                     Fallback(rank)
                         /\ CountRank(last.pre.hand[1], rank) >= 2)
                    => CountRank(last.pre.hand[1], last.rank) >= 2

\* C23: whenever the console's human_turn waits at its rank prompt and the
\* human holds a card, some input that names a card or a rank of the hand
\* is accepted, so that the loop is left for the target prompt.
RankPromptCanBeLeft ==
    (prompt = <<"rank">> /\ hand[HUMAN] # <<>>) =>
        \E typed \in RankInputs : InHand(Upper(typed), hand[HUMAN])

\* C24: play_game reaches the end of the game, a hand empty or every rank
\* a book, from every state it can be in, as long as its loop keeps running
\* and the players keep choosing.
PlayGameEnds == <>over

\* C25: in every reachable state in which the books of all players together
\* number len(RANKS) (13 with the full deck), the deck is empty and so is every
\* player's hand; hence the books condition of check_winner never holds in a
\* state where its empty-hand condition is false.
AllBookedLeavesNoCards ==
    BooksMade = Len(RANKS) =>
        /\ deck = <<>>
        /\ \A p \in Players : hand[p] = <<>>
        /\ \E p \in Players : hand[p] = <<>>

\* A request has just completed the last book.
AllBookedLeavesNoCardsWitness ==
    /\ Exchanged
    /\ BooksMade = Len(RANKS)
    /\ BooksGained(last.requester) = 1
    /\ over

\* C26: whenever play_turn gets past its game-over check, the current
\* player's hand is not empty and, if the current player is an AI,
\* choose_request returns a move: neither the "has no cards left" branch of
\* play_turn nor the "has no valid move" branch of ai_turn is ever executed.
NoTurnIsSkipped ==
    /\ last.kind # "skip"
    /\ (last.op = "play_turn" /\ last.kind \in {"prompt", "exchange"}) =>
           last.pre.hand[last.pre.current_player] # <<>>
    /\ (last.op \in {"play_turn", "ai_turn"} /\ Exchanged) =>
           None \notin ChooseRequest(last.pre, last.requester)

\* play_turn has passed its game-over check and gone on to the turn of the
\* current player, who holds cards.
NoTurnIsSkippedWitness ==
    /\ last.op = "play_turn"
    /\ last.kind = "prompt"
    /\ ~CheckWinner(last.pre)
    /\ last.pre.hand[last.pre.current_player] # <<>>

\* game.ai_turn has resolved the request choose_request returned.
AiTurnFoundAMove ==
    /\ last.op = "ai_turn"
    /\ Exchanged
    /\ <<last.rank, last.target>> \in ChooseRequest(last.pre, last.requester)

\* The game on which the ai_turn callback calls get_ai_turn_feedback: after
\* game.ai_turn has returned and before next_turn.
AfterAiTurn == [Game EXCEPT !.current_player = last.requester]

\* The rank, the target and the outcome of the request game.ai_turn resolved.
MoveMade ==
    [rank |-> last.rank, target |-> last.target,
     outcome |-> Outcome(last.pre, last.target, last.rank)]

\* C27: the feedback text the window shows after an AI's turn names the rank,
\* the target and the outcome (cards given, or Go Fish with or without a draw)
\* of the request game.ai_turn resolved in that turn.
FeedbackTellsTheMove ==
    (last.op = "ai_turn" /\ Exchanged) =>
        \A text \in GetAiTurnFeedback(AfterAiTurn) : text = MoveMade

====
